---- MODULE Spec2Model ----
(***************************************************************************)
(* The list endpoint of an entity feature (list-<entities>.ts) and the     *)
(* pagination contract it implements: a validated query, a count query, a  *)
(* windowed fetch query and createPage, run against a table that the add,  *)
(* edit and delete endpoints write concurrently; then the handlers of the  *)
(* delete, nested add, action and unique add endpoints, statement by       *)
(* statement, and the functions of the frontend API client.                *)
(***************************************************************************)
EXTENDS Integers, Sequences, FiniteSets

VARIABLES
    store,      \* the <entities> table: a set of rows [id, name]
    nextId,     \* ids handed out so far + 1 (v7() never repeats an id)
    writes,     \* number of write statements the table has committed
    req,        \* the list requests in flight, one record per request slot
    hist,       \* the responses a paging client has collected, in order
    op,         \* the delete, add and action requests in flight, per slot
    files,      \* the bucket: the file paths that hold an object
    children,   \* the <children> table: a set of rows [id, parentId]
    statusOf,   \* the status column of the rows of <entities>, by row id
    api,        \* the call of a frontend API client function in progress
    cache       \* the query cache of the frontend: an entry per query key

featureVars == <<op, files, children, statusOf, api, cache>>

vars == <<store, nextId, writes, req, hist, op, files, children, statusOf,
          api, cache>>

(***************************************************************************)
(* Bounds of the model.                                                    *)
(***************************************************************************)
\* Write statements the table commits in one run.
MaxWrites == 4

\* Rows in the table a paging client reads, and requests the client sends.
MaxRows == 2
MaxRequests == 2

\* The request slots of the list endpoint.
Reqs == {1}

\* Names a row may carry, as sequences of characters.
RowNames == {<<"a", "b">>, <<"b">>}

\* Raw query parameters as the client sends them: {} is an absent parameter,
\* {v} a parameter given with value v.
PageNumberParams == {{}, {0}, {1}, {2}, {3}}
PageSizeParams == {{}, {0}, {1}, {2}, {101}}
NameParams == {{}, {<<>>}, {<<"a">>}}

(***************************************************************************)
(* pagination.ts: paginationSchema and createPage.                         *)
(***************************************************************************)
DefaultPageNumber == 1
DefaultPageSize == 10
MaxPageSize == 100

\* A parameter's value after the schema's default is applied.
ParamOr(p, default) == IF p = {} THEN default ELSE CHOOSE v \in p : TRUE

\* list<Entities>Schema = paginationSchema.extend({ name: optional string }).
ParseQuery(q) ==
    [pageNumber |-> ParamOr(q.pageNumber, DefaultPageNumber),
     pageSize |-> ParamOr(q.pageSize, DefaultPageSize),
     name |-> q.name]

SchemaAccepts(q) ==
    LET v == ParseQuery(q)
    IN  /\ v.pageNumber >= 1
        /\ v.pageSize >= 1
        /\ v.pageSize <= MaxPageSize

\* Math.ceil(a / b); -1 stands for the non-finite result of a division by 0.
CeilDiv(a, b) ==
    IF b = 0 THEN -1
    ELSE LET x == IF b > 0 THEN a ELSE 0 - a
             y == IF b > 0 THEN b ELSE 0 - b
         IN  (x + y - 1) \div y

createPage(items, totalCount, pageNumber, pageSize) ==
    [items |-> items,
     totalCount |-> totalCount,
     pageNumber |-> pageNumber,
     pageSize |-> pageSize,
     totalPages |-> CeilDiv(totalCount, pageSize)]

(***************************************************************************)
(* The queries of the list handler.                                        *)
(***************************************************************************)
\* SQL LIKE: % matches any run of characters, _ any one character.
RECURSIVE LikeMatch(_, _)
LikeMatch(s, p) ==
    IF p = <<>> THEN s = <<>>
    ELSE IF Head(p) = "%"
         THEN LikeMatch(s, Tail(p)) \/ (s # <<>> /\ LikeMatch(Tail(s), p))
    ELSE IF s = <<>> THEN FALSE
    ELSE (Head(p) = "_" \/ Head(p) = Head(s)) /\ LikeMatch(Tail(s), Tail(p))

\* Mutant of Filters: the name filter is never pushed.
FiltersDropped(name) == {}

\* const filters = []; if (name) filters.push(like(name, `%${name}%`));
\* an absent or empty name is falsy and adds no filter.
Filters(name) ==
    IF name = {} \/ name = {<<>>} THEN {}
    ELSE {<<"%">> \o (CHOOSE n \in name : TRUE) \o <<"%">>}

\* where(and(...filters)): a row passes when it matches every filter.
Matching(rows, name) ==
    {row \in rows : \A p \in Filters(name) : LikeMatch(row.name, p)}

\* Mutant of CountQuery: the count query is issued without its where clause.
CountQueryUnfiltered(rows, name) == Cardinality(rows)

\* select({ totalCount: count() }).from(...).where(and(...filters))
CountQuery(rows, name) == Cardinality(Matching(rows, name))

\* The orders in which a select without ORDER BY may return a set of rows.
RowOrders(rows) ==
    {f \in [1..Cardinality(rows) -> rows] :
        \A i, j \in 1..Cardinality(rows) : i # j => f[i] # f[j]}

\* Mutant of Window: the .limit(pageSize) call is left out.
WindowNoLimit(rowSeq, limit, offset) ==
    SubSeq(rowSeq, offset + 1, Len(rowSeq))

\* Mutant of Window: the select is issued without .offset(offset).
WindowNoOffset(rowSeq, limit, offset) ==
    SubSeq(rowSeq, 1, IF limit < Len(rowSeq) THEN limit ELSE Len(rowSeq))

\* Mutant of Window: .limit() is given the offset and .offset() the page size.
WindowSwapped(rowSeq, limit, offset) ==
    LET last == IF limit + offset < Len(rowSeq) THEN limit + offset
                ELSE Len(rowSeq)
    IN  SubSeq(rowSeq, limit + 1, last)

\* .limit(limit).offset(offset) applied to the rows in the order returned.
Window(rowSeq, limit, offset) ==
    LET last == IF offset + limit < Len(rowSeq) THEN offset + limit
                ELSE Len(rowSeq)
    IN  SubSeq(rowSeq, offset + 1, last)

\* Mutant of Offset: the page number is taken as 0-indexed.
OffsetZeroIndexed(pageNumber, pageSize) == pageNumber * pageSize

\* const offset = (pageNumber - 1) * pageSize;
Offset(pageNumber, pageSize) == (pageNumber - 1) * pageSize

(***************************************************************************)
(* Request slots.                                                          *)
(***************************************************************************)
NoPage == [items |-> <<>>, totalCount |-> -1, pageNumber |-> -1,
           pageSize |-> -1, totalPages |-> -1]

IdleReq ==
    [pc |-> "idle",
     raw |-> [pageNumber |-> {}, pageSize |-> {}, name |-> {}],
     pageNumber |-> 0, pageSize |-> 0, name |-> {},
     totalCount |-> 0,
     status |-> "none", page |-> NoPage,
     calls |-> 0, failed |-> FALSE,
     wCount |-> 0, wFetch |-> 0]

\* The request slots of the delete, add and action endpoints.
Ops == {1, 2}

\* A slot that serves no request: existing holds the rows the handler's
\* select returned, body what the response carries ({} is no body), log the
\* statements the handler has issued, in order.
IdleOp ==
    [pc |-> "idle", route |-> "none", id |-> 0, name |-> <<>>,
     existing |-> {}, status |-> "none", body |-> {}, log |-> <<>>]

\* No frontend call in progress.
IdleApi == [pc |-> "idle"]

\* The endpoints other than the list endpoint serve no request, the bucket
\* and the <children> table are empty, no row has a status and the
\* frontend has cached no query.
FeaturesIdle ==
    /\ op = [o \in Ops |-> IdleOp]
    /\ files = {}
    /\ children = {}
    /\ statusOf = <<>>
    /\ api = IdleApi
    /\ cache = <<>>

Init ==
    /\ store = {}
    /\ nextId = 1
    /\ writes = 0
    /\ req = [r \in Reqs |-> IdleReq]
    /\ hist = <<>>
    /\ FeaturesIdle

(***************************************************************************)
(* The write endpoints, as the statements they commit to the table.        *)
(***************************************************************************)
\* addRoute: insert(<entities>).values({ ...data, <entityId>: v7() })
AddEntity(name) ==
    /\ writes < MaxWrites
    /\ store' = store \cup {[id |-> nextId, name |-> name]}
    /\ nextId' = nextId + 1
    /\ writes' = writes + 1
    /\ UNCHANGED <<req, hist, featureVars>>

\* editRoute: update(<entities>).set(data).where(eq(<entityId>, id))
\* An update that leaves the row as it was is not counted as a write.
EditEntity(id, name) ==
    /\ writes < MaxWrites
    /\ \E row \in store :
        /\ row.id = id
        /\ row.name # name
        /\ store' = (store \ {row}) \cup {[id |-> id, name |-> name]}
    /\ writes' = writes + 1
    /\ UNCHANGED <<nextId, req, hist, featureVars>>

\* deleteRoute: delete(<entities>).where(eq(<entityId>, id))
DeleteEntity(id) ==
    /\ writes < MaxWrites
    /\ \E row \in store :
        /\ row.id = id
        /\ store' = store \ {row}
    /\ writes' = writes + 1
    /\ UNCHANGED <<nextId, req, hist, featureVars>>

(***************************************************************************)
(* listRoute.                                                              *)
(***************************************************************************)
\* zValidator('query', list<Entities>Schema) rejects the request: the
\* handler does not run.
ListReject(r, q) ==
    /\ req[r].pc = "idle"
    /\ ~SchemaAccepts(q)
    /\ req' = [req EXCEPT ![r] =
                [@ EXCEPT !.pc = "done", !.raw = q,
                          !.status = "ValidationError"]]
    /\ UNCHANGED <<store, nextId, writes, hist, featureVars>>

\* Mutant of ListAccept: the route is registered without zValidator, the
\* handler runs on whatever the query holds.
ListAcceptUnvalidated(r, q) ==
    /\ req[r].pc = "idle"
    /\ req' = [req EXCEPT ![r] =
                [@ EXCEPT !.pc = "count", !.raw = q,
                          !.pageNumber = ParseQuery(q).pageNumber,
                          !.pageSize = ParseQuery(q).pageSize,
                          !.name = ParseQuery(q).name]]
    /\ UNCHANGED <<store, nextId, writes, hist, featureVars>>

\* Mutant of ListAccept: out-of-range values are clamped into the range
\* instead of being rejected.
ListAcceptClamped(r, q) ==
    LET v == ParseQuery(q)
        pn == IF v.pageNumber < 1 THEN 1 ELSE v.pageNumber
        ps == IF v.pageSize < 1 THEN 1
              ELSE IF v.pageSize > MaxPageSize THEN MaxPageSize
              ELSE v.pageSize
    IN  /\ req[r].pc = "idle"
        /\ req' = [req EXCEPT ![r] =
                    [@ EXCEPT !.pc = "count", !.raw = q,
                              !.pageNumber = pn, !.pageSize = ps,
                              !.name = v.name]]
        /\ UNCHANGED <<store, nextId, writes, hist, featureVars>>

\* zValidator accepts: the handler starts with c.req.valid('query').
ListAccept(r, q) ==
    /\ req[r].pc = "idle"
    /\ SchemaAccepts(q)
    /\ req' = [req EXCEPT ![r] =
                [@ EXCEPT !.pc = "count", !.raw = q,
                          !.pageNumber = ParseQuery(q).pageNumber,
                          !.pageSize = ParseQuery(q).pageSize,
                          !.name = ParseQuery(q).name]]
    /\ UNCHANGED <<store, nextId, writes, hist, featureVars>>

\* const [{ totalCount }] = await client.select({ totalCount: count() })...
ListCount(r) ==
    /\ req[r].pc = "count"
    /\ req' = [req EXCEPT ![r] =
                [@ EXCEPT !.pc = "fetch",
                          !.totalCount = CountQuery(store, req[r].name),
                          !.calls = @ + 1,
                          !.wCount = writes]]
    /\ UNCHANGED <<store, nextId, writes, hist, featureVars>>

\* Mutant of ListCountFails: a rejected count query is issued once more
\* instead of ending the handler.
ListCountRetried(r) ==
    /\ req[r].pc = "count"
    /\ req[r].calls < 2
    /\ req' = [req EXCEPT ![r] = [@ EXCEPT !.calls = @ + 1]]
    /\ UNCHANGED <<store, nextId, writes, hist, featureVars>>

\* The count query rejects: the await throws and the handler ends there.
ListCountFails(r) ==
    /\ req[r].pc = "count"
    /\ req' = [req EXCEPT ![r] =
                [@ EXCEPT !.pc = "done", !.calls = @ + 1, !.failed = TRUE,
                          !.status = "StoreError"]]
    /\ UNCHANGED <<store, nextId, writes, hist, featureVars>>

\* Mutant of ListFetch: createPage is called with pageSize and pageNumber
\* in each other's place.
ListFetchSwappedArgs(r) ==
    /\ req[r].pc = "fetch"
    /\ \E rowSeq \in RowOrders(Matching(store, req[r].name)) :
        LET items == Window(rowSeq, req[r].pageSize,
                            Offset(req[r].pageNumber, req[r].pageSize))
        IN  req' = [req EXCEPT ![r] =
                [@ EXCEPT !.pc = "done",
                          !.calls = @ + 1,
                          !.wFetch = writes,
                          !.status = "OK",
                          !.page = createPage(items, req[r].totalCount,
                                              req[r].pageSize,
                                              req[r].pageNumber)]]
    /\ UNCHANGED <<store, nextId, writes, hist, featureVars>>

\* Mutant of ListFetch: the rows are fetched with delete(...).returning(),
\* which takes them out of the table.
ListFetchDeleting(r) ==
    /\ req[r].pc = "fetch"
    /\ \E rowSeq \in RowOrders(Matching(store, req[r].name)) :
        LET items == Window(rowSeq, req[r].pageSize,
                            Offset(req[r].pageNumber, req[r].pageSize))
        IN  /\ req' = [req EXCEPT ![r] =
                [@ EXCEPT !.pc = "done",
                          !.calls = @ + 1,
                          !.wFetch = writes,
                          !.status = "OK",
                          !.page = createPage(items, req[r].totalCount,
                                              req[r].pageNumber,
                                              req[r].pageSize)]]
            /\ store' = store \ {items[i] : i \in 1..Len(items)}
    /\ UNCHANGED <<nextId, writes, hist, featureVars>>

\* Mutant of ListFetch: the page is built with the length of the window as
\* its total count.
ListFetchCountsWindow(r) ==
    /\ req[r].pc = "fetch"
    /\ \E rowSeq \in RowOrders(Matching(store, req[r].name)) :
        LET items == Window(rowSeq, req[r].pageSize,
                            Offset(req[r].pageNumber, req[r].pageSize))
        IN  req' = [req EXCEPT ![r] =
                [@ EXCEPT !.pc = "done",
                          !.calls = @ + 1,
                          !.wFetch = writes,
                          !.status = "OK",
                          !.page = createPage(items, Len(items),
                                              req[r].pageNumber,
                                              req[r].pageSize)]]
    /\ UNCHANGED <<store, nextId, writes, hist, featureVars>>

\* const items = await client.select()...limit(pageSize).offset(offset);
\* return c.json(createPage(items, totalCount, pageNumber, pageSize), OK)
\* The database refuses a negative LIMIT or OFFSET, so the select succeeds
\* only when neither is negative.
ListFetch(r) ==
    /\ req[r].pc = "fetch"
    /\ Offset(req[r].pageNumber, req[r].pageSize) >= 0
    /\ req[r].pageSize >= 0
    /\ \E rowSeq \in RowOrders(Matching(store, req[r].name)) :
        LET items == Window(rowSeq, req[r].pageSize,
                            Offset(req[r].pageNumber, req[r].pageSize))
        IN  req' = [req EXCEPT ![r] =
                [@ EXCEPT !.pc = "done",
                          !.calls = @ + 1,
                          !.wFetch = writes,
                          !.status = "OK",
                          !.page = createPage(items, req[r].totalCount,
                                              req[r].pageNumber,
                                              req[r].pageSize)]]
    /\ UNCHANGED <<store, nextId, writes, hist, featureVars>>

\* Mutant of ListFetchFails: the rejection is caught and an empty window
\* is returned in its place.
ListFetchFailsDefaulted(r) ==
    /\ req[r].pc = "fetch"
    /\ req' = [req EXCEPT ![r] =
                [@ EXCEPT !.pc = "done", !.calls = @ + 1, !.failed = TRUE,
                          !.wFetch = writes,
                          !.status = "OK",
                          !.page = createPage(<<>>, req[r].totalCount,
                                              req[r].pageNumber,
                                              req[r].pageSize)]]
    /\ UNCHANGED <<store, nextId, writes, hist, featureVars>>

\* The fetch query rejects: the await throws, no page is built.
ListFetchFails(r) ==
    /\ req[r].pc = "fetch"
    /\ req' = [req EXCEPT ![r] =
                [@ EXCEPT !.pc = "done", !.calls = @ + 1, !.failed = TRUE,
                          !.status = "StoreError"]]
    /\ UNCHANGED <<store, nextId, writes, hist, featureVars>>

\* The caller goes away while the handler waits on a query.
ListCancel(r) ==
    /\ req[r].pc \in {"count", "fetch"}
    /\ req' = [req EXCEPT ![r] = [@ EXCEPT !.pc = "done",
                                           !.status = "Cancelled"]]
    /\ UNCHANGED <<store, nextId, writes, hist, featureVars>>

\* The response has been delivered; the slot serves the next request.
ListRelease(r) ==
    /\ req[r].pc = "done"
    /\ req' = [req EXCEPT ![r] = IdleReq]
    /\ UNCHANGED <<store, nextId, writes, hist, featureVars>>

Queries ==
    [pageNumber : PageNumberParams, pageSize : PageSizeParams,
     name : NameParams]

Next ==
    \/ \E name \in RowNames : AddEntity(name)
    \/ \E id \in 1..MaxWrites, name \in RowNames : EditEntity(id, name)
    \/ \E id \in 1..MaxWrites : DeleteEntity(id)
    \/ \E r \in Reqs, q \in Queries : ListReject(r, q)
    \/ \E r \in Reqs, q \in Queries : ListAccept(r, q)
    \/ \E r \in Reqs : ListCount(r)
    \/ \E r \in Reqs : ListCountFails(r)
    \/ \E r \in Reqs : ListFetch(r)
    \/ \E r \in Reqs : ListFetchFails(r)
    \/ \E r \in Reqs : ListCancel(r)
    \/ \E r \in Reqs : ListRelease(r)

Spec == Init /\ [][Next]_vars

(***************************************************************************)
(* A client that pages through the list of a table no one writes: it       *)
(* sends one request at a time, keeps the filter and the page size, and    *)
(* asks for the same page again or for the next one.                       *)
(***************************************************************************)
\* Tables of up to MaxRows rows.
ClientStores ==
    UNION {{{[id |-> i, name |-> f[i]] : i \in 1..n} :
                f \in [1..n -> RowNames]} : n \in 0..MaxRows}

ClientSlot == CHOOSE r \in Reqs : TRUE

ClientInit ==
    /\ store \in ClientStores
    /\ nextId = Cardinality(store) + 1
    /\ writes = 0
    /\ req = [r \in Reqs |-> IdleReq]
    /\ hist = <<>>
    /\ FeaturesIdle

\* queryFn: list<Entities>(params, token). The first request is any query;
\* a later one repeats the last page (a refetch of the same query key) or
\* asks for the page after it (the Pagination control).
ClientSend(q) ==
    /\ Len(hist) < MaxRequests
    /\ hist # <<>> =>
        LET last == hist[Len(hist)].raw
        IN  /\ q.name = last.name
            /\ q.pageSize = last.pageSize
            /\ ParseQuery(q).pageNumber - ParseQuery(last).pageNumber
                   \in {0, 1}
    /\ ListAccept(ClientSlot, q) \/ ListReject(ClientSlot, q)

\* The response reaches the client: return response.json() or the thrown
\* error.
ClientCollect ==
    /\ req[ClientSlot].pc = "done"
    /\ hist' = Append(hist, [raw |-> req[ClientSlot].raw,
                             status |-> req[ClientSlot].status,
                             page |-> req[ClientSlot].page])
    /\ req' = [req EXCEPT ![ClientSlot] = IdleReq]
    /\ UNCHANGED <<store, nextId, writes, featureVars>>

ClientNext ==
    \/ \E q \in Queries : ClientSend(q)
    \/ ListCount(ClientSlot)
    \/ ListFetch(ClientSlot)
    \/ ClientCollect

ClientSpec == ClientInit /\ [][ClientNext]_vars

(***************************************************************************)
(* Properties of the list endpoint under concurrent writes (Spec).         *)
(***************************************************************************)
Min(a, b) == IF a < b THEN a ELSE b
Max(a, b) == IF a > b THEN a ELSE b
Abs(a) == IF a < 0 THEN 0 - a ELSE a

\* The request in slot r got a page back.
Returned(r) == req[r].status = "OK"

\* No write was committed between the two queries of the request in slot r.
Unmodified(r) == req[r].wCount = req[r].wFetch

\* The window length the count of the request in slot r calls for.
ExpectedLength(r) ==
    Min(req[r].pageSize,
        Max(0, req[r].page.totalCount
               - (req[r].pageNumber - 1) * req[r].pageSize))

\* C1: a page returned for a valid request, with no write between its count
\* and its fetch, holds min(pageSize, max(0, totalCount - (pageNumber-1) *
\* pageSize)) items.
C1_WindowLength ==
    \A r \in Reqs :
        Returned(r) /\ Unmodified(r) =>
            /\ req[r].pageNumber >= 1
            /\ req[r].pageSize >= 1
            /\ Len(req[r].page.items) = ExpectedLength(r)

\* A last page that is only partly filled: 3 rows, page 2 of size 2.
C1_Witness ==
    \E r \in Reqs :
        /\ Returned(r) /\ Unmodified(r)
        /\ req[r].pageNumber = 2 /\ req[r].pageSize = 2
        /\ req[r].page.totalCount = 3
        /\ Len(req[r].page.items) = 1

\* totalPages is the least number of pages of pageSize that hold totalCount.
IsCeil(totalPages, totalCount, pageSize) ==
    /\ totalPages * pageSize >= totalCount
    /\ (totalPages - 1) * pageSize < totalCount

\* C4 (as stated): every returned page has totalPages = ceil(totalCount /
\* pageSize), and totalPages = 0 with empty items when totalCount = 0.
C4_Original ==
    \A r \in Reqs :
        Returned(r) =>
            /\ IsCeil(req[r].page.totalPages, req[r].page.totalCount,
                      req[r].pageSize)
            /\ req[r].page.totalCount = 0 =>
                /\ req[r].page.totalPages = 0
                /\ req[r].page.items = <<>>

\* C4 (amended): every returned page has totalPages = ceil(totalCount /
\* pageSize) and totalPages = 0 when totalCount = 0; its items are empty
\* when totalCount = 0 and no write was committed between count and fetch.
C4_TotalPages ==
    \A r \in Reqs :
        Returned(r) =>
            /\ IsCeil(req[r].page.totalPages, req[r].page.totalCount,
                      req[r].pageSize)
            /\ req[r].page.totalCount = 0 => req[r].page.totalPages = 0
            /\ req[r].page.totalCount = 0 /\ Unmodified(r) =>
                req[r].page.items = <<>>

\* A filter that matches none of the rows of a table that is not empty.
C4_Witness ==
    \E r \in Reqs :
        /\ Returned(r) /\ Unmodified(r)
        /\ req[r].wFetch = writes
        /\ store # {}
        /\ req[r].page.totalCount = 0
        /\ req[r].page.totalPages = 0
        /\ req[r].page.items = <<>>

\* The query of slot r gives a page number or a page size below 1.
BelowOne(r) ==
    \/ \E v \in req[r].raw.pageNumber : v < 1
    \/ \E v \in req[r].raw.pageSize : v < 1

\* C5: a request with pageNumber < 1 or pageSize < 1 ends in a validation
\* error with no query issued to the table.
C5_RejectedBeforeStore ==
    \A r \in Reqs :
        req[r].pc # "idle" /\ BelowOne(r) =>
            /\ req[r].pc = "done"
            /\ req[r].status = "ValidationError"
            /\ req[r].calls = 0
            /\ req[r].page = NoPage

\* pageSize=0 has been rejected while the table holds rows.
C5_Witness ==
    \E r \in Reqs :
        /\ req[r].raw.pageSize = {0}
        /\ req[r].status = "ValidationError"
        /\ req[r].calls = 0
        /\ store # {}

\* The query of slot r gives a page number or page size outside its range.
OutOfRange(r) ==
    \/ BelowOne(r)
    \/ \E v \in req[r].raw.pageSize : v > MaxPageSize

\* C6: an out-of-range pageNumber or pageSize yields a validation error and
\* no page; a returned page reports the pageNumber and pageSize requested.
C6_NeverClamped ==
    \A r \in Reqs :
        /\ req[r].pc # "idle" /\ OutOfRange(r) =>
            /\ req[r].status = "ValidationError"
            /\ req[r].page = NoPage
        /\ Returned(r) =>
            /\ \A v \in req[r].raw.pageNumber : req[r].page.pageNumber = v
            /\ \A v \in req[r].raw.pageSize : req[r].page.pageSize = v

\* A page size above the maximum has been rejected.
C6_Witness ==
    \E r \in Reqs :
        /\ \E v \in req[r].raw.pageSize : v > MaxPageSize
        /\ req[r].raw.pageNumber = {1}
        /\ req[r].status = "ValidationError"
        /\ req[r].page = NoPage

\* C8: a request one of whose queries failed returns no page; a returned
\* page comes from two queries that both succeeded.
C8_FailureFailsRequest ==
    \A r \in Reqs :
        /\ req[r].failed =>
            /\ req[r].status = "StoreError"
            /\ req[r].page = NoPage
        /\ Returned(r) => ~req[r].failed /\ req[r].calls = 2

\* The count succeeded with a count above 0 and the fetch then failed.
C8_Witness ==
    \E r \in Reqs :
        /\ req[r].failed
        /\ req[r].calls = 2
        /\ req[r].totalCount > 0
        /\ req[r].status = "StoreError"

\* C9: a returned page may break items.length = min(pageSize, max(0,
\* totalCount - offset)); it does so only when writes were committed between
\* its count and its fetch, and by no more than the number of those writes.
C9_SkewBoundedByWrites ==
    \A r \in Reqs :
        Returned(r) =>
            Abs(Len(req[r].page.items) - ExpectedLength(r))
                <= req[r].wFetch - req[r].wCount

\* A page whose items disagree with its totalCount after one write between
\* the count and the fetch.
C9_Witness ==
    \E r \in Reqs :
        /\ Returned(r)
        /\ req[r].wFetch = req[r].wCount + 1
        /\ Len(req[r].page.items) # ExpectedLength(r)

RECURSIVE Collected(_)
Collected(n) ==
    IF n = 0 THEN <<>> ELSE Collected(n - 1) \o hist[n].page.items

\* The client has asked for pages 1..totalPages in turn and got them all.
WalkedAllPages ==
    /\ hist # <<>>
    /\ \A i \in 1..Len(hist) :
        /\ hist[i].status = "OK"
        /\ hist[i].page.pageNumber = i
    /\ hist[1].page.totalPages = Len(hist)

\* C2: the items of pages 1..totalPages of one filter, end to end, are the
\* rows that satisfy the filter, each exactly once.
C2_PagesPartition ==
    WalkedAllPages =>
        LET all == Collected(Len(hist))
            rows == Matching(store, hist[1].raw.name)
        IN  /\ {all[k] : k \in 1..Len(all)} = rows
            /\ Len(all) = Cardinality(rows)

\* C3: two requests with the same filter, pageNumber and pageSize get the
\* same response: the same items in the same order, the same totalCount and
\* totalPages.
C3_Idempotent ==
    \A i, j \in 1..Len(hist) :
        hist[i].raw = hist[j].raw =>
            /\ hist[i].status = hist[j].status
            /\ hist[i].page = hist[j].page

\* The request of response h asks for a page after the last page.
BeyondLastPage(h) ==
    /\ SchemaAccepts(h.raw)
    /\ (ParseQuery(h.raw).pageNumber - 1) * ParseQuery(h.raw).pageSize
           >= Cardinality(Matching(store, h.raw.name))

\* C7: a request for a page after the last page succeeds with empty items
\* and with the totalCount and totalPages every other page of the filter
\* reports.
C7_BeyondLastPage ==
    \A i \in 1..Len(hist) :
        BeyondLastPage(hist[i]) =>
            /\ hist[i].status = "OK"
            /\ hist[i].page.items = <<>>
            /\ hist[i].page.pageNumber > hist[i].page.totalPages
            /\ \A j \in 1..Len(hist) :
                hist[j].status = "OK" =>
                    /\ hist[j].page.totalCount = hist[i].page.totalCount
                    /\ hist[j].page.totalPages = hist[i].page.totalPages

\* The client got the one page of a table with rows, then the page after it.
C7_Witness ==
    /\ Len(hist) = 2
    /\ hist[1].status = "OK"
    /\ hist[1].page.items # <<>>
    /\ hist[1].page.totalPages = 1
    /\ BeyondLastPage(hist[2])
    /\ hist[2].page.pageNumber = 2
    /\ hist[2].page.items = <<>>
    /\ hist[2].page.totalCount = hist[1].page.totalCount

\* The sequence n occurs in the sequence s as a run of adjacent characters.
Contains(s, n) ==
    \E i \in 0..(Len(s) - Len(n)) : SubSeq(s, i + 1, i + Len(n)) = n

\* The row carries the name the query asks for; a query without a name asks
\* for nothing.
Satisfies(row, nameParam) == \A n \in nameParam : Contains(row.name, n)

\* C11: the totalCount of every returned page is the number of rows that
\* satisfy the filter, whatever pageNumber and pageSize are, the items
\* fetched satisfy the same filter, and all pages of one filter on an
\* unmodified table report the same totalCount.
C11_CountIgnoresWindow ==
    \A i \in 1..Len(hist) :
        hist[i].status = "OK" =>
            /\ hist[i].page.totalCount =
                   Cardinality({row \in store :
                                    Satisfies(row, hist[i].raw.name)})
            /\ \A k \in 1..Len(hist[i].page.items) :
                   Satisfies(hist[i].page.items[k], hist[i].raw.name)
            /\ \A j \in 1..Len(hist) :
                   hist[j].status = "OK" =>
                       hist[j].page.totalCount = hist[i].page.totalCount

\* Pages 1 and 2 of a filter that one of the two rows of the table passes.
C11_Witness ==
    /\ Len(hist) = 2
    /\ hist[1].status = "OK" /\ hist[2].status = "OK"
    /\ hist[1].page.pageNumber = 1 /\ hist[2].page.pageNumber = 2
    /\ hist[1].raw.name = {<<"a">>}
    /\ Cardinality(store) = 2
    /\ hist[1].page.totalCount = 1
    /\ hist[2].page.totalCount = 1

\* C20: the offset of a validated request is (pageNumber - 1) * pageSize, a
\* multiple of pageSize that is not negative; the items returned are at most
\* pageSize rows, those that follow the first offset rows of the matching
\* rows in the order the select returns them.
C20_OffsetAndLimit ==
    \A i \in 1..Len(hist) :
        hist[i].status = "OK" =>
            LET pn == hist[i].page.pageNumber
                ps == hist[i].page.pageSize
                off == Offset(pn, ps)
                items == hist[i].page.items
                rows == Matching(store, hist[i].raw.name)
            IN  /\ off = (pn - 1) * ps
                /\ off >= 0
                /\ off % ps = 0
                /\ Len(items) <= ps
                /\ \E rowSeq \in RowOrders(rows) :
                       items = SubSeq(rowSeq, off + 1,
                                      Min(off + ps, Len(rowSeq)))

\* Page 2 of size 1 of a table of two rows: one row skipped, one taken.
C20_Witness ==
    \E i \in 1..Len(hist) :
        /\ hist[i].status = "OK"
        /\ hist[i].page.pageNumber = 2
        /\ hist[i].page.pageSize = 1
        /\ hist[i].page.totalCount = 2
        /\ Len(hist[i].page.items) = 1

\* C12: one request issues the count query at most once and the fetch query
\* at most once, the count first; a request whose query failed, or that
\* failed validation, issues no query afterwards.
C12_EachQueryOnce ==
    [][\A r \in Reqs :
          /\ req'[r].calls \in {req[r].calls, req[r].calls + 1, 0}
          /\ req'[r].calls = req[r].calls + 1 =>
                 \/ /\ req[r].pc = "count" /\ req[r].calls = 0
                    /\ req'[r].pc \in {"fetch", "done"}
                 \/ /\ req[r].pc = "fetch" /\ req[r].calls = 1
                    /\ req'[r].pc = "done"
          /\ (req[r].failed \/ req[r].status = "ValidationError") =>
                 req'[r] \in {req[r], IdleReq}
          /\ req[r].status = "ValidationError" => req[r].calls = 0]_vars

\* The count succeeded and the fetch failed: two queries issued, no third.
C12_Witness ==
    \E r \in Reqs :
        /\ req[r].pc = "done"
        /\ req[r].failed
        /\ req[r].calls = 2

\* C13 as stated: a returned page holds as many items as totalCount only
\* when totalCount <= pageSize and pageNumber = 1.
C13_Original ==
    \A r \in Reqs :
        Returned(r) /\ Len(req[r].page.items) = req[r].page.totalCount =>
            /\ req[r].page.totalCount <= req[r].pageSize
            /\ req[r].pageNumber = 1

\* C13 (amended): a returned page with no write committed between its count
\* and its fetch holds as many items as totalCount only when totalCount <=
\* pageSize and either pageNumber = 1 or totalCount = 0.
C13_AllItemsOnPage ==
    \A r \in Reqs :
        /\ Returned(r)
        /\ Unmodified(r)
        /\ Len(req[r].page.items) = req[r].page.totalCount
        => /\ req[r].page.totalCount <= req[r].pageSize
           /\ req[r].pageNumber = 1 \/ req[r].page.totalCount = 0

\* Page 2 of a filter that matches no row of a table that is not empty: no
\* item and a totalCount of 0.
C13_Witness ==
    \E r \in Reqs :
        /\ Returned(r) /\ Unmodified(r)
        /\ store # {}
        /\ req[r].pageNumber = 2
        /\ req[r].page.totalCount = 0
        /\ Len(req[r].page.items) = req[r].page.totalCount

Ids == 1..(MaxRows + 1)

\* existing.filePath: the path of the file of a row, one file per row.
FilePath(row) == row.id

\* select().from(<entities>).where(eq(<entityId>, id)).limit(1)
RowsById(id) == {row \in store : row.id = id}

\* Every row of the table has its file in the bucket.
DeleteInit ==
    /\ store \in ClientStores
    /\ nextId = Cardinality(store) + 1
    /\ writes = 0
    /\ req = [r \in Reqs |-> IdleReq]
    /\ hist = <<>>
    /\ op = [o \in Ops |-> IdleOp]
    /\ files = {FilePath(row) : row \in store}
    /\ children = {}
    /\ statusOf = <<>>
    /\ api = IdleApi
    /\ cache = <<>>

\* DELETE /:<entityId> arrives and zValidator('param') accepts the id.
DeleteStart(o, id) ==
    /\ op[o].pc = "idle"
    /\ op' = [op EXCEPT ![o] = [IdleOp EXCEPT !.pc = "select",
                                              !.route = "delete",
                                              !.id = id]]
    /\ UNCHANGED <<store, nextId, writes, req, hist, files, children,
                   statusOf, api, cache>>

\* const [existing] = await client.select()...; if (!existing) return
\* notFoundError(...)
DeleteSelect(o) ==
    /\ op[o].pc = "select"
    /\ op[o].route = "delete"
    /\ LET found == RowsById(op[o].id)
       IN  op' = [op EXCEPT ![o] =
                   [@ EXCEPT !.existing = found,
                             !.log = Append(@, "select"),
                             !.pc = IF found = {} THEN "done" ELSE "file",
                             !.status = IF found = {} THEN "NotFound"
                                        ELSE "none",
                             !.body = IF found = {} THEN {"problem"} ELSE {}]]
    /\ UNCHANGED <<store, nextId, writes, req, hist, files, children,
                   statusOf, api, cache>>

\* Mutant of DeleteFile: the handler goes on to the database delete without
\* calling deleteFile.
DeleteFileSkipped(o) ==
    /\ op[o].pc = "file"
    /\ op' = [op EXCEPT ![o] = [@ EXCEPT !.pc = "row"]]
    /\ UNCHANGED <<store, nextId, writes, req, hist, files, children,
                   statusOf, api, cache>>

\* await deleteFile(existing.filePath): s3Client.send(DeleteObjectCommand)
\* is issued and the handler waits for it.
DeleteFile(o) ==
    /\ op[o].pc = "file"
    /\ op' = [op EXCEPT ![o] = [@ EXCEPT !.pc = "fileWait",
                                         !.log = Append(@, "deleteFile")]]
    /\ UNCHANGED <<store, nextId, writes, req, hist, files, children,
                   statusOf, api, cache>>

\* The bucket has deleted the object (deleting an absent object succeeds
\* too) and the await returns.
DeleteFileDone(o) ==
    /\ op[o].pc = "fileWait"
    /\ files' = files \ {FilePath(row) : row \in op[o].existing}
    /\ op' = [op EXCEPT ![o] = [@ EXCEPT !.pc = "row",
                                         !.log = Append(@, "fileDeleted")]]
    /\ UNCHANGED <<store, nextId, writes, req, hist, children, statusOf,
                   api, cache>>

\* The bucket rejects the command: the await throws and the handler ends.
DeleteFileFails(o) ==
    /\ op[o].pc = "fileWait"
    /\ op' = [op EXCEPT ![o] = [@ EXCEPT !.pc = "done",
                                         !.status = "Error",
                                         !.body = {"error"}]]
    /\ UNCHANGED <<store, nextId, writes, req, hist, files, children,
                   statusOf, api, cache>>

\* Mutant of DeleteRow: the delete statement is issued without its where
\* clause.
DeleteRowAll(o) ==
    /\ op[o].pc = "row"
    /\ store' = {}
    /\ writes' = writes + Cardinality(store)
    /\ op' = [op EXCEPT ![o] = [@ EXCEPT !.pc = "done",
                                         !.log = Append(@, "delete"),
                                         !.status = "NoContent",
                                         !.body = {}]]
    /\ UNCHANGED <<nextId, req, hist, files, children, statusOf, api, cache>>

\* await client.delete(<entities>).where(eq(<entityId>, id)); return
\* c.body(null, NO_CONTENT). A row another request has deleted meanwhile
\* makes the statement delete nothing.
DeleteRow(o) ==
    /\ op[o].pc = "row"
    /\ store' = store \ RowsById(op[o].id)
    /\ writes' = writes + Cardinality(RowsById(op[o].id))
    /\ op' = [op EXCEPT ![o] = [@ EXCEPT !.pc = "done",
                                         !.log = Append(@, "delete"),
                                         !.status = "NoContent",
                                         !.body = {}]]
    /\ UNCHANGED <<nextId, req, hist, files, children, statusOf, api, cache>>

\* The database rejects the delete: the await throws and the handler ends.
DeleteRowFails(o) ==
    /\ op[o].pc = "row"
    /\ op' = [op EXCEPT ![o] = [@ EXCEPT !.pc = "done",
                                         !.status = "Error",
                                         !.body = {"error"}]]
    /\ UNCHANGED <<store, nextId, writes, req, hist, files, children,
                   statusOf, api, cache>>

\* The response has been delivered; the slot serves the next request.
OpRelease(o) ==
    /\ op[o].pc = "done"
    /\ op' = [op EXCEPT ![o] = IdleOp]
    /\ UNCHANGED <<store, nextId, writes, req, hist, files, children,
                   statusOf, api, cache>>

DeleteNext ==
    \/ \E o \in Ops, id \in Ids : DeleteStart(o, id)
    \/ \E o \in Ops : DeleteSelect(o)
    \/ \E o \in Ops : DeleteFile(o)
    \/ \E o \in Ops : DeleteFileDone(o)
    \/ \E o \in Ops : DeleteFileFails(o)
    \/ \E o \in Ops : DeleteRow(o)
    \/ \E o \in Ops : DeleteRowFails(o)
    \/ \E o \in Ops : OpRelease(o)

DeleteSpec == DeleteInit /\ [][DeleteNext]_vars

\* The statement s is in the log of the request in slot o.
Logged(o, s) == \E i \in 1..Len(op[o].log) : op[o].log[i] = s

\* C15: the delete handler issues the database delete only after its
\* storage delete has completed: a handler that issues the delete has its
\* deleteFile call returned and the files of the rows it read are gone from
\* the bucket, and every row that leaves the table has no file left.
C15_FileBeforeRow ==
    [][/\ \A o \in Ops :
              /\ Len(op'[o].log) > Len(op[o].log)
              /\ op'[o].log[Len(op'[o].log)] = "delete"
              => /\ Logged(o, "fileDeleted")
                 /\ \A row \in op[o].existing : FilePath(row) \notin files
       /\ \A row \in store : row \notin store' => FilePath(row) \notin files
      ]_vars

\* A request has deleted the file, then the row, and answered 204.
C15_Witness ==
    \E o \in Ops :
        /\ op[o].pc = "done"
        /\ op[o].status = "NoContent"
        /\ op[o].log = <<"select", "deleteFile", "fileDeleted", "delete">>
        /\ \A row \in op[o].existing :
               row \notin store /\ FilePath(row) \notin files

(***************************************************************************)
(* addRoute of a nested resource: the parent check, then the insert. The   *)
(* add endpoint that validates a foreign key runs the same two statements  *)
(* on the referenced table.                                                *)
(***************************************************************************)
ChildInit ==
    /\ store \in ClientStores
    /\ nextId = Cardinality(store) + 1
    /\ writes = 0
    /\ req = [r \in Reqs |-> IdleReq]
    /\ hist = <<>>
    /\ FeaturesIdle

\* POST /<parents>/:<parentId>/<children> arrives and the validators accept
\* the param and the body.
ChildStart(o, parentId) ==
    /\ op[o].pc = "idle"
    /\ op' = [op EXCEPT ![o] = [IdleOp EXCEPT !.pc = "select",
                                              !.route = "addChild",
                                              !.id = parentId]]
    /\ UNCHANGED <<store, nextId, writes, req, hist, files, children,
                   statusOf, api, cache>>

\* Mutant of ChildSelect: the handler goes on to the insert whether the
\* select returned a parent or not.
ChildSelectUnchecked(o) ==
    /\ op[o].pc = "select"
    /\ op[o].route = "addChild"
    /\ op' = [op EXCEPT ![o] =
               [@ EXCEPT !.existing = RowsById(op[o].id),
                         !.log = Append(@, "select"),
                         !.pc = "insert"]]
    /\ UNCHANGED <<store, nextId, writes, req, hist, files, children,
                   statusOf, api, cache>>

\* const [parent] = await client.select()...; if (!parent) return
\* notFoundError(...)
ChildSelect(o) ==
    /\ op[o].pc = "select"
    /\ op[o].route = "addChild"
    /\ LET found == RowsById(op[o].id)
       IN  op' = [op EXCEPT ![o] =
                   [@ EXCEPT !.existing = found,
                             !.log = Append(@, "select"),
                             !.pc = IF found = {} THEN "done" ELSE "insert",
                             !.status = IF found = {} THEN "NotFound"
                                        ELSE "none",
                             !.body = IF found = {} THEN {"problem"} ELSE {}]]
    /\ UNCHANGED <<store, nextId, writes, req, hist, files, children,
                   statusOf, api, cache>>

\* const [item] = await client.insert(<children>).values({ ...data,
\* <childId>: v7(), <parentId> }).returning(); return c.json(item, CREATED)
ChildInsert(o) ==
    /\ op[o].pc = "insert"
    /\ Cardinality(children) < MaxRows
    /\ children' = children \cup {[id |-> nextId, parentId |-> op[o].id]}
    /\ nextId' = nextId + 1
    /\ op' = [op EXCEPT ![o] = [@ EXCEPT !.pc = "done",
                                         !.log = Append(@, "insert"),
                                         !.status = "Created",
                                         !.body = {[id |-> nextId,
                                                    parentId |-> op[o].id]}]]
    /\ UNCHANGED <<store, writes, req, hist, files, statusOf, api, cache>>

\* The insert statement throws: the snippet spreads a variable data it
\* never declares, which throws before the statement is issued where the
\* build lets it through, and the database may reject the row.
ChildInsertFails(o) ==
    /\ op[o].pc = "insert"
    /\ op' = [op EXCEPT ![o] = [@ EXCEPT !.pc = "done",
                                         !.status = "Error",
                                         !.body = {"error"}]]
    /\ UNCHANGED <<store, nextId, writes, req, hist, files, children,
                   statusOf, api, cache>>

ChildNext ==
    \/ \E o \in Ops, parentId \in Ids : ChildStart(o, parentId)
    \/ \E o \in Ops : ChildSelect(o)
    \/ \E o \in Ops : ChildInsert(o)
    \/ \E o \in Ops : ChildInsertFails(o)
    \/ \E id \in Ids : DeleteEntity(id)
    \/ \E o \in Ops : OpRelease(o)

ChildSpec == ChildInit /\ [][ChildNext]_vars

\* The step appends the statement s to the log of the request in slot o.
Issues(o, s) ==
    /\ Len(op'[o].log) = Len(op[o].log) + 1
    /\ op'[o].log[Len(op'[o].log)] = s

\* C16: a child add request whose parent check finds no parent answers
\* not-found and inserts nothing; an insert is issued only by a request
\* whose check found the parent, for that parent, and nothing else adds a
\* row to the <children> table.
C16_ParentChecked ==
    [][/\ \A o \in Ops :
              /\ op[o].pc = "select" /\ op'[o].pc # "select"
                 /\ RowsById(op[o].id) = {}
                 => /\ op'[o].pc = "done"
                    /\ op'[o].status = "NotFound"
                    /\ children' = children
              /\ op[o].status = "NotFound" => ~Issues(o, "insert")
              /\ Issues(o, "insert") =>
                     /\ op[o].log = <<"select">>
                     /\ op[o].existing # {}
                     /\ \A row \in op[o].existing : row.id = op[o].id
       /\ children' # children =>
              \E o \in Ops :
                  /\ Issues(o, "insert")
                  /\ \E child \in children' :
                         /\ children' = children \cup {child}
                         /\ child.parentId = op[o].id
      ]_vars

\* One request was refused for a parent that does not exist, another has
\* inserted the only row of the <children> table.
C16_Witness ==
    \E o1, o2 \in Ops :
        /\ op[o1].pc = "done" /\ op[o1].status = "NotFound"
        /\ op[o1].log = <<"select">>
        /\ op[o2].pc = "done" /\ op[o2].status = "Created"
        /\ op[o2].log = <<"select", "insert">>
        /\ Cardinality(children) = 1
        /\ \A child \in children : child.parentId = op[o2].id

(***************************************************************************)
(* <action>Route: the state transition endpoint of an entity that has a    *)
(* status column.                                                          *)
(***************************************************************************)
\* The values of the status column: the one the action expects, the one it
\* sets and one that is neither.
Statuses == {"Expected Status", "New Status", "Other Status"}

ActionInit ==
    /\ store \in ClientStores
    /\ nextId = Cardinality(store) + 1
    /\ writes = 0
    /\ req = [r \in Reqs |-> IdleReq]
    /\ hist = <<>>
    /\ op = [o \in Ops |-> IdleOp]
    /\ files = {}
    /\ children = {}
    /\ statusOf \in [{row.id : row \in store} -> Statuses]
    /\ api = IdleApi
    /\ cache = <<>>

\* POST /:<entityId>/<action> arrives and the validators accept the param
\* and the body.
ActionStart(o, id) ==
    /\ op[o].pc = "idle"
    /\ op' = [op EXCEPT ![o] = [IdleOp EXCEPT !.pc = "select",
                                              !.route = "action",
                                              !.id = id]]
    /\ UNCHANGED <<store, nextId, writes, req, hist, files, children,
                   statusOf, api, cache>>

\* The rows the select of the action handler returns, with their status.
RowsWithStatus(id) ==
    {[id |-> row.id, name |-> row.name, status |-> statusOf[row.id]] :
         row \in RowsById(id)}

\* Mutant of ActionSelect: the handler does not compare existing.status
\* with the expected status.
ActionSelectAnyStatus(o) ==
    /\ op[o].pc = "select"
    /\ op[o].route = "action"
    /\ LET found == RowsWithStatus(op[o].id)
       IN  op' = [op EXCEPT ![o] =
                   [@ EXCEPT !.existing = found,
                             !.log = Append(@, "select"),
                             !.pc = IF found = {} THEN "done" ELSE "update",
                             !.status = IF found = {} THEN "NotFound"
                                        ELSE "none",
                             !.body = IF found = {} THEN {"problem"} ELSE {}]]
    /\ UNCHANGED <<store, nextId, writes, req, hist, files, children,
                   statusOf, api, cache>>

\* const [existing] = await client.select()...; if (!existing) return
\* notFoundError(...); if (existing.status !== 'Expected Status') return
\* conflictError(...)
ActionSelect(o) ==
    /\ op[o].pc = "select"
    /\ op[o].route = "action"
    /\ LET found == RowsWithStatus(op[o].id)
           refused == \E row \in found : row.status # "Expected Status"
       IN  op' = [op EXCEPT ![o] =
                   [@ EXCEPT !.existing = found,
                             !.log = Append(@, "select"),
                             !.pc = IF found = {} \/ refused THEN "done"
                                    ELSE "update",
                             !.status = IF found = {} THEN "NotFound"
                                        ELSE IF refused THEN "Conflict"
                                        ELSE "none",
                             !.body = IF found = {} \/ refused THEN {"problem"}
                                      ELSE {}]]
    /\ UNCHANGED <<store, nextId, writes, req, hist, files, children,
                   statusOf, api, cache>>

\* const [item] = await client.update(<entities>).set({ ...data, status:
\* 'New Status' }).where(eq(<entityId>, id)).returning(); return
\* c.json(item, OK). The statement updates the row whatever its status is
\* by now, and no row when the row is gone.
ActionUpdate(o) ==
    /\ op[o].pc = "update"
    /\ statusOf' = IF RowsById(op[o].id) = {} THEN statusOf
                   ELSE [statusOf EXCEPT ![op[o].id] = "New Status"]
    /\ writes' = writes + Cardinality(RowsById(op[o].id))
    /\ op' = [op EXCEPT ![o] = [@ EXCEPT !.pc = "done",
                                         !.log = Append(@, "update"),
                                         !.status = "OK",
                                         !.body =
                                             {[row EXCEPT !.status =
                                                   "New Status"] :
                                              row \in RowsWithStatus(
                                                          op[o].id)}]]
    /\ UNCHANGED <<store, nextId, req, hist, files, children, api, cache>>

\* The database rejects the update: the await throws and the handler ends.
ActionUpdateFails(o) ==
    /\ op[o].pc = "update"
    /\ op' = [op EXCEPT ![o] = [@ EXCEPT !.pc = "done",
                                         !.status = "Error",
                                         !.body = {"error"}]]
    /\ UNCHANGED <<store, nextId, writes, req, hist, files, children,
                   statusOf, api, cache>>

ActionNext ==
    \/ \E o \in Ops, id \in Ids : ActionStart(o, id)
    \/ \E o \in Ops : ActionSelect(o)
    \/ \E o \in Ops : ActionUpdate(o)
    \/ \E o \in Ops : ActionUpdateFails(o)
    \/ \E id \in Ids : DeleteEntity(id)
    \/ \E o \in Ops : OpRelease(o)

ActionSpec == ActionInit /\ [][ActionNext]_vars

\* C17: an action request that reads the entity in a status other than the
\* expected one answers conflict and leaves the table as it is; one that
\* reads no entity answers not-found; the update is issued only by a
\* request that read the entity in the expected status, and only an update
\* changes a status, to the new status.
C17_OnlyExpectedStatusUpdated ==
    [][/\ \A o \in Ops :
              /\ op[o].pc = "select" /\ op'[o].pc # "select" =>
                     /\ RowsById(op[o].id) = {} =>
                            op'[o].pc = "done" /\ op'[o].status = "NotFound"
                     /\ (\E row \in RowsById(op[o].id) :
                             statusOf[row.id] # "Expected Status")
                        => /\ op'[o].pc = "done"
                           /\ op'[o].status = "Conflict"
                           /\ statusOf' = statusOf
                           /\ store' = store
              /\ op[o].status \in {"Conflict", "NotFound"} =>
                     ~Issues(o, "update")
              /\ Issues(o, "update") =>
                     /\ op[o].log = <<"select">>
                     /\ \E row \in op[o].existing :
                            /\ row.id = op[o].id
                            /\ row.status = "Expected Status"
       /\ statusOf' # statusOf =>
              \E o \in Ops :
                  /\ Issues(o, "update")
                  /\ statusOf' =
                         [statusOf EXCEPT ![op[o].id] = "New Status"]
                  /\ store' = store
      ]_vars

\* One request was refused with a conflict on a row whose status is not the
\* expected one, another has moved a row to the new status.
C17_Witness ==
    \E o1, o2 \in Ops :
        /\ op[o1].pc = "done" /\ op[o1].status = "Conflict"
        /\ \E row \in op[o1].existing : row.status = "Other Status"
        /\ \E row \in RowsById(op[o1].id) :
               statusOf[row.id] = "Other Status"
        /\ op[o2].pc = "done" /\ op[o2].status = "OK"
        /\ op[o2].log = <<"select", "update">>
        /\ \E row \in RowsById(op[o2].id) : statusOf[row.id] = "New Status"

(***************************************************************************)
(* addRoute of an entity with a unique field: the duplicate check, then    *)
(* the insert. The name column stands for the unique field.                *)
(***************************************************************************)
\* Tables in which no two rows carry the same unique field value.
UniqueStores ==
    {rows \in ClientStores :
        \A r1, r2 \in rows : r1.name = r2.name => r1 = r2}

UniqueInit ==
    /\ store \in UniqueStores
    /\ nextId = Cardinality(store) + 1
    /\ writes = 0
    /\ req = [r \in Reqs |-> IdleReq]
    /\ hist = <<>>
    /\ FeaturesIdle

\* POST / arrives and zValidator('json') accepts the body.
UniqueStart(o, name) ==
    /\ op[o].pc = "idle"
    /\ op' = [op EXCEPT ![o] = [IdleOp EXCEPT !.pc = "select",
                                              !.route = "addUnique",
                                              !.name = name]]
    /\ UNCHANGED <<store, nextId, writes, req, hist, files, children,
                   statusOf, api, cache>>

\* select().from(<entities>).where(eq(uniqueField, value)).limit(1): no row
\* or any one of the rows that carry the value.
Duplicates(name) ==
    LET same == {row \in store : row.name = name}
    IN  IF same = {} THEN {{}} ELSE {{row} : row \in same}

\* Mutant of UniqueSelect: the handler goes on to the insert whether the
\* select returned a duplicate or not.
UniqueSelectUnchecked(o) ==
    /\ op[o].pc = "select"
    /\ op[o].route = "addUnique"
    /\ \E found \in Duplicates(op[o].name) :
           op' = [op EXCEPT ![o] = [@ EXCEPT !.existing = found,
                                             !.log = Append(@, "select"),
                                             !.pc = "insert"]]
    /\ UNCHANGED <<store, nextId, writes, req, hist, files, children,
                   statusOf, api, cache>>

\* const [duplicate] = await client.select()...; if (duplicate) return
\* conflictError(...)
UniqueSelect(o) ==
    /\ op[o].pc = "select"
    /\ op[o].route = "addUnique"
    /\ \E found \in Duplicates(op[o].name) :
           op' = [op EXCEPT ![o] =
                   [@ EXCEPT !.existing = found,
                             !.log = Append(@, "select"),
                             !.pc = IF found # {} THEN "done" ELSE "insert",
                             !.status = IF found # {} THEN "Conflict"
                                        ELSE "none",
                             !.body = IF found # {} THEN {"problem"} ELSE {}]]
    /\ UNCHANGED <<store, nextId, writes, req, hist, files, children,
                   statusOf, api, cache>>

\* insert(<entities>).values({ ...data, <entityId>: v7() }).returning();
\* return c.json(item, CREATED)
UniqueInsert(o) ==
    /\ op[o].pc = "insert"
    /\ writes < MaxWrites
    /\ store' = store \cup {[id |-> nextId, name |-> op[o].name]}
    /\ nextId' = nextId + 1
    /\ writes' = writes + 1
    /\ op' = [op EXCEPT ![o] = [@ EXCEPT !.pc = "done",
                                         !.log = Append(@, "insert"),
                                         !.status = "Created",
                                         !.body = {[id |-> nextId,
                                                    name |-> op[o].name]}]]
    /\ UNCHANGED <<req, hist, files, children, statusOf, api, cache>>

\* The database rejects the insert (a unique index on the column, if the
\* table has one, rejects a value inserted meanwhile): the await throws.
UniqueInsertFails(o) ==
    /\ op[o].pc = "insert"
    /\ op' = [op EXCEPT ![o] = [@ EXCEPT !.pc = "done",
                                         !.status = "Error",
                                         !.body = {"error"}]]
    /\ UNCHANGED <<store, nextId, writes, req, hist, files, children,
                   statusOf, api, cache>>

UniqueNext ==
    \/ \E o \in Ops, name \in RowNames : UniqueStart(o, name)
    \/ \E o \in Ops : UniqueSelect(o)
    \/ \E o \in Ops : UniqueInsert(o)
    \/ \E o \in Ops : UniqueInsertFails(o)
    \/ \E id \in Ids : DeleteEntity(id)
    \/ \E o \in Ops : OpRelease(o)

UniqueSpec == UniqueInit /\ [][UniqueNext]_vars

\* C18: an add request whose duplicate check runs while a row with the same
\* unique field value exists answers conflict and leaves the table as it
\* is; a request that answered conflict issues no insert, an insert is
\* issued only by a request whose check found no duplicate, and every row
\* added to the table comes from such an insert.
C18_DuplicateRefused ==
    [][/\ \A o \in Ops :
              /\ /\ op[o].pc = "select" /\ op'[o].pc # "select"
                 /\ \E row \in store : row.name = op[o].name
                 => /\ op'[o].pc = "done"
                    /\ op'[o].status = "Conflict"
                    /\ store' = store
              /\ op[o].status = "Conflict" => ~Issues(o, "insert")
              /\ Issues(o, "insert") =>
                     /\ op[o].log = <<"select">>
                     /\ op[o].existing = {}
       /\ \A row \in store' :
              row \notin store =>
                  \E o \in Ops : Issues(o, "insert") /\ row.name = op[o].name
      ]_vars

\* One request was refused for a value a row of the table carries, another
\* has inserted a row with a value no row carried.
C18_Witness ==
    \E o1, o2 \in Ops :
        /\ op[o1].pc = "done" /\ op[o1].status = "Conflict"
        /\ op[o1].log = <<"select">>
        /\ \E row \in store : row.name = op[o1].name
        /\ op[o2].pc = "done" /\ op[o2].status = "Created"
        /\ op[o2].log = <<"select", "insert">>
        /\ op[o2].name # op[o1].name

(***************************************************************************)
(* The functions of the frontend API client (stores/<entities>Client.ts).  *)
(***************************************************************************)
Fns == {"list", "get", "add", "edit", "delete", "approve"}

\* The second operand of error.detail || '...' in each function.
DefaultMessage(fn) ==
    CASE fn = "list" -> "Failed to fetch <entities>"
      [] fn = "get" -> "Failed to fetch <entity>"
      [] fn = "add" -> "Failed to add <entity>"
      [] fn = "edit" -> "Failed to update <entity>"
      [] fn = "delete" -> "Failed to delete <entity>"
      [] fn = "approve" -> "Failed to approve <entity>"

\* The detail member of a JSON object body: {} is a member that is absent,
\* {d} a member of value d.
Details == {{}, {""}, {"<Entity> 1 not found"}, {"Validation failed"}}

\* The bodies a response may carry: text that is not JSON (an empty body, a
\* plain text or HTML error page), the JSON value null, or a JSON object.
Bodies ==
    {[kind |-> "text", detail |-> {}, data |-> "none"],
     [kind |-> "null", detail |-> {}, data |-> "none"]}
    \cup [kind : {"object"}, detail : Details, data : {"d1", "d2"}]

Responses == [ok : BOOLEAN, body : Bodies]

NoResponse == [ok |-> FALSE, body |-> [kind |-> "none", detail |-> {},
                                       data |-> "none"]]

Throw(error, message) ==
    [kind |-> "throw", error |-> error, message |-> message,
     value |-> "none"]

Return(value) ==
    [kind |-> "return", error |-> "none", message |-> "none",
     value |-> value]

\* if (!response.ok) { const error = await response.json(); throw new
\* Error(error.detail || '...'); } return response.json();
\* response.json() rejects with a SyntaxError on a body that is not JSON,
\* and error.detail throws a TypeError when error is null; delete<Entity>
\* returns nothing on an ok response.
ClientFn(fn, response) ==
    IF ~response.ok
    THEN CASE response.body.kind = "text" ->
                  Throw("SyntaxError", "Unexpected token")
           [] response.body.kind = "null" ->
                  Throw("TypeError", "Cannot read properties of null")
           [] response.body.kind = "object" ->
                  IF response.body.detail \in {{}, {""}}
                  THEN Throw("Error", DefaultMessage(fn))
                  ELSE Throw("Error",
                             CHOOSE d \in response.body.detail : TRUE)
    ELSE IF fn = "delete" THEN Return("undefined")
    ELSE IF response.body.kind = "text"
         THEN Throw("SyntaxError", "Unexpected token")
    ELSE Return(response.body)

ApiInit ==
    /\ store = {}
    /\ nextId = 1
    /\ writes = 0
    /\ req = [r \in Reqs |-> IdleReq]
    /\ hist = <<>>
    /\ FeaturesIdle

\* const response = await client.api.<entities>...: the request is sent.
ApiCall(fn) ==
    /\ api.pc = "idle"
    /\ api' = [pc |-> "wait", fn |-> fn, response |-> NoResponse,
               outcome |-> Return("none")]
    /\ UNCHANGED <<store, nextId, writes, req, hist, op, files, children,
                   statusOf, cache>>

\* The response arrives and the function runs to its end.
ApiRespond(response) ==
    /\ api.pc = "wait"
    /\ api' = [api EXCEPT !.pc = "settled",
                          !.response = response,
                          !.outcome = ClientFn(api.fn, response)]
    /\ UNCHANGED <<store, nextId, writes, req, hist, op, files, children,
                   statusOf, cache>>

\* No response arrives: fetch rejects and the await throws.
ApiFetchFails ==
    /\ api.pc = "wait"
    /\ api' = [api EXCEPT !.pc = "settled",
                          !.outcome = Throw("TypeError", "Failed to fetch")]
    /\ UNCHANGED <<store, nextId, writes, req, hist, op, files, children,
                   statusOf, cache>>

\* The caller has the result; the next call may start.
ApiRelease ==
    /\ api.pc = "settled"
    /\ api' = IdleApi
    /\ UNCHANGED <<store, nextId, writes, req, hist, op, files, children,
                   statusOf, cache>>

ApiNext ==
    \/ \E fn \in Fns : ApiCall(fn)
    \/ \E response \in Responses : ApiRespond(response)
    \/ ApiFetchFails
    \/ ApiRelease

ApiSpec == ApiInit /\ [][ApiNext]_vars

\* A response has arrived and the function has run to its end.
Settled == api.pc = "settled" /\ api.response # NoResponse

\* C19: on a response that is not ok every function of the API client
\* throws an Error whose message is the detail of the response or the
\* default message of the function, and it returns data only on an ok
\* response.
C19_ThrowsDetailOrDefault ==
    Settled =>
        /\ ~api.response.ok =>
               /\ api.outcome.kind = "throw"
               /\ api.outcome.message \in
                      api.response.body.detail \cup {DefaultMessage(api.fn)}
        /\ api.outcome.kind = "return" => api.response.ok

\* C21: a delete request whose select finds no row answers not-found and
\* changes neither the table nor the bucket; the delete statement of a
\* request removes the rows of the id it names and no other row, the
\* request then answers 204 with no body, and a row leaves the table only
\* by such a statement and is never changed in place.
C21_DeleteFrame ==
    [][/\ \A o \in Ops :
              /\ /\ op[o].pc = "select" /\ op'[o].pc # "select"
                 /\ RowsById(op[o].id) = {}
                 => /\ op'[o].pc = "done"
                    /\ op'[o].status = "NotFound"
                    /\ store' = store
                    /\ files' = files
              /\ op[o].status = "NotFound" =>
                     /\ op'[o] \in {op[o], IdleOp}
                     /\ op[o].log = <<"select">>
              /\ Issues(o, "delete") =>
                     /\ op[o].existing # {}
                     /\ store' = {row \in store : row.id # op[o].id}
                     /\ files' = files
                     /\ op'[o].pc = "done"
                     /\ op'[o].status = "NoContent"
                     /\ op'[o].body = {}
       /\ store' # store =>
              /\ store' \subseteq store
              /\ \E o \in Ops :
                     /\ Issues(o, "delete")
                     /\ \A row \in store \ store' : row.id = op[o].id
      ]_vars

\* One request was refused for an id no row carries; another has deleted
\* the row it named, answered 204 with no body and left the other row.
C21_Witness ==
    \E o1, o2 \in Ops :
        /\ op[o1].pc = "done" /\ op[o1].status = "NotFound"
        /\ op[o1].id = MaxRows + 1
        /\ op[o2].pc = "done" /\ op[o2].status = "NoContent"
        /\ op[o2].body = {}
        /\ op[o2].existing # {}
        /\ RowsById(op[o2].id) = {}
        /\ Cardinality(store) = 1

\* C23: of two action requests for one entity that both end in OK there is
\* at most one: no two slots hold an OK response to the same action on the
\* same id.
C23_AtMostOneOk ==
    \A o1, o2 \in Ops :
        /\ o1 # o2
        /\ op[o1].route = "action" /\ op[o2].route = "action"
        /\ op[o1].id = op[o2].id
        /\ op[o1].status = "OK"
        => op[o2].status # "OK"

(***************************************************************************)
(* The mutation hooks of the frontend (stores/use<Entities>.ts) and the    *)
(* query cache they write.                                                 *)
(***************************************************************************)
\* The entity ids a hook is created for.
EntityIds == {"1", "2"}

\* The keys of the cached queries: two list queries, the combobox search
\* query and one query per entity.
ListKeys == {<<"<entities>", "p1">>, <<"<entities>", "p2">>,
             <<"<entities>", "search", "p1">>}
EntityKey(id) == <<"<entity>", id>>

\* Mutant of MatchesKey: the filter matches only the query whose key is the
\* filter key itself (exact: true).
MatchesKeyExact(key, filter) == key = filter

\* The query filter { queryKey: filter } matches the queries whose key
\* starts with the filter key.
MatchesKey(key, filter) ==
    /\ Len(key) >= Len(filter)
    /\ SubSeq(key, 1, Len(filter)) = filter

\* queryClient.invalidateQueries({ queryKey: filter })
InvalidateQueries(c, filter) ==
    [k \in DOMAIN c |->
        IF MatchesKey(k, filter) THEN [c[k] EXCEPT !.isInvalidated = TRUE]
        ELSE c[k]]

\* queryClient.setQueryData(key, data): the entry is created when the cache
\* has none, and holds fresh data afterwards.
SetQueryData(c, key, data) ==
    [k \in DOMAIN c \cup {key} |->
        IF k = key THEN [data |-> data, isInvalidated |-> FALSE] ELSE c[k]]

\* The hooks that mutate: useAdd, useEdit, useApprove, useDelete.
MutationFns == {"add", "edit", "approve", "delete"}

\* The record of entity 1 as the frontend fetched it before any mutation.
FetchedRecord == [kind |-> "object", detail |-> {}, data |-> "d1"]

\* The list queries and the query of entity 1 are cached and fresh; the
\* query of entity 2 has not been fetched.
CacheInit ==
    /\ store = {}
    /\ nextId = 1
    /\ writes = 0
    /\ req = [r \in Reqs |-> IdleReq]
    /\ hist = <<>>
    /\ op = [o \in Ops |-> IdleOp]
    /\ files = {}
    /\ children = {}
    /\ statusOf = <<>>
    /\ api = IdleApi
    /\ cache = [k \in ListKeys \cup {EntityKey("1")} |->
                   [data |-> IF k \in ListKeys THEN "page"
                             ELSE FetchedRecord,
                    isInvalidated |-> FALSE]]

\* mutate(data): mutationFn awaits getToken() and calls the client function
\* of the hook, for the id the hook was created with.
Mutate(fn, id) ==
    /\ api.pc = "idle"
    /\ api' = [pc |-> "wait", fn |-> fn, id |-> id,
               response |-> NoResponse, outcome |-> Return("none")]
    /\ UNCHANGED <<store, nextId, writes, req, hist, op, files, children,
                   statusOf, cache>>

\* mutationFn has returned: onSuccess runs invalidateQueries and, in
\* useEdit and useApprove, setQueryData with the value returned.
MutationSuccess ==
    /\ api.pc = "settled"
    /\ api.outcome.kind = "return"
    /\ cache' =
           IF api.fn \in {"edit", "approve"}
           THEN SetQueryData(InvalidateQueries(cache, <<"<entities>">>),
                             EntityKey(api.id), api.outcome.value)
           ELSE InvalidateQueries(cache, <<"<entities>">>)
    /\ api' = [api EXCEPT !.pc = "done"]
    /\ UNCHANGED <<store, nextId, writes, req, hist, op, files, children,
                   statusOf>>

\* mutationFn has thrown: the hooks define no onError and the mutation ends
\* in its error state.
MutationError ==
    /\ api.pc = "settled"
    /\ api.outcome.kind = "throw"
    /\ api' = [api EXCEPT !.pc = "done"]
    /\ UNCHANGED <<store, nextId, writes, req, hist, op, files, children,
                   statusOf, cache>>

\* An invalidated list query has been fetched again.
Refetch(key) ==
    /\ key \in DOMAIN cache
    /\ cache[key].isInvalidated
    /\ cache' = [cache EXCEPT ![key].isInvalidated = FALSE]
    /\ UNCHANGED <<store, nextId, writes, req, hist, op, files, children,
                   statusOf, api>>

\* The component has seen the result; the hook may mutate again.
MutationReset ==
    /\ api.pc = "done"
    /\ api' = IdleApi
    /\ UNCHANGED <<store, nextId, writes, req, hist, op, files, children,
                   statusOf, cache>>

CacheNext ==
    \/ \E fn \in MutationFns, id \in EntityIds : Mutate(fn, id)
    \/ \E response \in Responses : ApiRespond(response)
    \/ ApiFetchFails
    \/ MutationSuccess
    \/ MutationError
    \/ \E key \in ListKeys : Refetch(key)
    \/ MutationReset

CacheSpec == CacheInit /\ [][CacheNext]_vars

\* The step in which the hook handles the end of mutationFn.
MutationEnds == api.pc = "settled" /\ api'.pc = "done"

\* C22: when a mutation succeeds, every cached query whose key starts with
\* '<entities>' is invalidated afterwards and, for an edit or an action,
\* the cached data of the query of that entity is the record in the body of
\* the server's response, fresh, with every other entity query as it was;
\* when a mutation fails the cache is as it was.
C22_CacheAfterMutation ==
    [][MutationEnds =>
          IF api.outcome.kind = "return"
          THEN /\ api.response.ok
               /\ \A k \in DOMAIN cache :
                      k[1] = "<entities>" =>
                          k \in DOMAIN cache' /\ cache'[k].isInvalidated
               /\ api.fn \in {"edit", "approve"} =>
                      /\ EntityKey(api.id) \in DOMAIN cache'
                      /\ cache'[EntityKey(api.id)] =
                             [data |-> api.response.body,
                              isInvalidated |-> FALSE]
               /\ \A id \in EntityIds :
                      \/ id = api.id /\ api.fn \in {"edit", "approve"}
                      \/ /\ EntityKey(id) \in DOMAIN cache'
                            <=> EntityKey(id) \in DOMAIN cache
                         /\ EntityKey(id) \in DOMAIN cache =>
                                cache'[EntityKey(id)] = cache[EntityKey(id)]
          ELSE cache' = cache
      ]_vars

\* An edit of entity 2 succeeded: the three list queries are invalidated,
\* the query of entity 2, not cached before, holds the record of the
\* response and the query of entity 1 holds what it held.
C22_Witness ==
    /\ api.pc = "done"
    /\ api.fn = "edit" /\ api.id = "2"
    /\ api.outcome.kind = "return"
    /\ \A k \in ListKeys : cache[k].isInvalidated
    /\ EntityKey("2") \in DOMAIN cache
    /\ cache[EntityKey("2")].data = api.response.body
    /\ api.response.body.data = "d2"
    /\ cache[EntityKey("1")].data = FetchedRecord

====
